---- MODULE Spec2Model ----
(***************************************************************************)
(* Presence & relay engine of monitor-iot-server (src/server.js, the       *)
(* Redis-backed revision at lines 183-599).                                *)
(*                                                                         *)
(* One server process owns: the `sockets` registry (token -> transport),   *)
(* the `connectedDevices` cache, one Redis subscriber (a set of subscribed *)
(* channels) and the list of "message" listeners that every established    *)
(* connection adds to that subscriber and never removes.  Redis is a       *)
(* single totally ordered broker: a publish is appended to the inbound     *)
(* queue of every process subscribed to the channel at that moment.        *)
(***************************************************************************)
EXTENDS Integers, Sequences, FiniteSets, TLC

(* ------------------------------ bounds ---------------------------------- *)
\* connection slots (transports accepted over the whole run)
MaxConns == 2
\* a client frame is accepted only while every inbound bus queue is shorter
MaxBus == 1

(* --------------------------- program constants -------------------------- *)
PongTimeoutMs == 10000
PingIntervalMs == 15000
PolicyViolation == 1008

(* ------------------------------ universe -------------------------------- *)
None == "undefined"
Procs == {"p1", "p2"}
Users == {"u1", "u2"}
ConnIds == 1 .. MaxConns
NoConn == 0

\* JSON objects used as device data: a key is absent when its value is 0;
\* def = FALSE is the JavaScript value undefined.
NoData == [def |-> FALSE, setpoint |-> 0, mode |-> 0]
EmptyData == [def |-> TRUE, setpoint |-> 0, mode |-> 0]
Setpoint72 == [def |-> TRUE, setpoint |-> 72, mode |-> 0]
ModeOn == [def |-> TRUE, setpoint |-> 0, mode |-> 1]

\* var deviceObj = {}
EmptyObj ==
    [deviceId |-> None, userId |-> None, deviceName |-> None,
     deviceType |-> None, data |-> NoData]

createDeviceObj(deviceId, userId, deviceName, deviceType, data) ==
    [deviceId |-> deviceId, userId |-> userId, deviceName |-> deviceName,
     deviceType |-> deviceType, data |-> data]

\* jwt.verify + User.findById: the id the token was issued for, or None (null)
authenticateConnection(token) ==
    CASE token \in {"t1", "t1b"} -> "u1"
      [] token = "t2" -> "u2"
      [] OTHER -> None

\* URL search parameters of an upgrade request
Req(token, userId, type, deviceId, deviceName, deviceType) ==
    [token |-> token, userId |-> userId, type |-> type, deviceId |-> deviceId,
     deviceName |-> deviceName, deviceType |-> deviceType]

(* --------------------------- bus envelopes ------------------------------ *)
Envelope(channel, messageType, deviceId, hasObj, deviceObj, userId) ==
    [channel |-> channel, messageType |-> messageType, deviceId |-> deviceId,
     hasObj |-> hasObj, deviceObj |-> deviceObj, userId |-> userId]

GetDevicesMsg(ch) == Envelope(ch, "getDevices", None, FALSE, EmptyObj, None)
McuUpdatesMsg(ch, obj) == Envelope(ch, "mcuUpdatesDevice", None, TRUE, obj, None)
UserUpdatesMsg(ch, obj) == Envelope(ch, "userUpdatesDevice", None, TRUE, obj, None)
RemoveDeviceMsg(ch, did) == Envelope(ch, "removeDevice", did, FALSE, EmptyObj, None)
UserStoppedMsg(ch) == Envelope(ch, "userStopped", None, FALSE, EmptyObj, ch)
\* { removeDevice: true, deviceId }: the close handler's envelope has no messageType
LegacyRemoveMsg(ch, did) == Envelope(ch, None, did, FALSE, EmptyObj, None)

(* ------------------------------- state ---------------------------------- *)
VARIABLES
    conn,              \* per transport: request closure, readyState, timers
    sockets,           \* per process: token -> transport (NoConn = no entry)
    connectedDevices,  \* per process: the Map deviceId -> deviceObj, as a set
    subscribed,        \* per process: channels of redisSubscriber
    listeners,         \* per process: redisSubscriber "message" listeners, in order
    bus,               \* per process: messages Redis has pushed, not yet emitted
    sent,              \* per transport: last device list / device object sent on it
    termPub,           \* history: terminal envelopes the transport's handlers published
    seen               \* history: who was connected when the transport was
                       \* established / when its pong deadline expired

hist == <<termPub, seen>>
vars == <<conn, sockets, connectedDevices, subscribed, listeners, bus, sent, hist>>

Tokens == {"t1", "t1b", "t2"}

FreshConn ==
    [phase |-> "none", ready |-> "CLOSED", proc |-> "p1", token |-> None,
     userId |-> None, clientType |-> None, deviceId |-> None,
     deviceName |-> None, deviceType |-> None, deviceObj |-> EmptyObj,
     pingTimeout |-> FALSE, timedOut |-> FALSE, closeCode |-> 0,
     closeReason |-> None]

NoSent == [hasList |-> FALSE, devices |-> {}, hasObj |-> FALSE, deviceObj |-> EmptyObj,
           stopped |-> FALSE]

NoSeen == [live |-> {}, terminated |-> {}, users |-> {}]

\* the process after start-up, with room for the transports in S
InitWith(S) ==
    /\ conn = [c \in S |-> FreshConn]
    /\ sockets = [p \in Procs |-> [t \in Tokens |-> NoConn]]
    /\ connectedDevices = [p \in Procs |-> {}]
    /\ subscribed = [p \in Procs |-> {}]
    /\ listeners = [p \in Procs |-> <<>>]
    /\ bus = [p \in Procs |-> <<>>]
    /\ sent = [c \in S |-> NoSent]
    /\ termPub = [c \in S |-> 0]
    /\ seen = [c \in S |-> NoSeen]

Init == InitWith(ConnIds)

(* ------------------------------ vocabulary ------------------------------ *)
Conns == DOMAIN conn

\* authenticated as user or device, handlers installed, transport open
Established(c) ==
    /\ conn[c].phase = "open"
    /\ conn[c].ready = "OPEN"
    /\ conn[c].clientType \in {"user", "mcu"}

\* device / user connections of userId that are established and open
LiveDevices(userId) ==
    {d \in Conns : Established(d) /\ conn[d].clientType = "mcu" /\ conn[d].userId = userId}
LiveUsers(userId) ==
    {k \in Conns : Established(k) /\ conn[k].clientType = "user" /\ conn[k].userId = userId}

\* device connections of userId that closed or were evicted by the heartbeat
TerminatedDevices(userId) ==
    {d \in Conns : /\ conn[d].clientType = "mcu" /\ conn[d].userId = userId
                   /\ (conn[d].phase = "closed" \/ conn[d].timedOut)}

(* ------------------------- cache vocabulary ----------------------------- *)
\* the deviceIds the cache of process p holds for userId
CacheIds(p, userId) ==
    {o.deviceId : o \in {x \in connectedDevices[p] : x.userId = userId}}

\* the deviceIds of the device connections of userId that are live
LiveDeviceIds(userId) == {conn[d].deviceObj.deviceId : d \in LiveDevices(userId)}

\* the deviceIds in the last device list sent on transport k
ListIds(k) == {o.deviceId : o \in sent[k].devices}

\* nothing in flight: every bus message emitted, no establishment suspended
Quiescent ==
    /\ \A p \in Procs : bus[p] = <<>>
    /\ \A c \in Conns : conn[c].phase # "subscribing"

(* ------------------------------ helpers --------------------------------- *)
\* redisPublisher.publish(channel, ...): Redis hands the message to every
\* subscriber connection that is subscribed to the channel at that moment.
Publish(b, subs, msg) ==
    [q \in Procs |-> IF msg.channel \in subs[q] THEN Append(b[q], msg) ELSE b[q]]

\* mutant of MapSet: the Map is rebuilt around the new entry
MapSetDropOthers(cd, obj) == {obj}

\* connectedDevices.set(deviceObj.deviceId, deviceObj)
MapSet(cd, obj) == {o \in cd : o.deviceId # obj.deviceId} \cup {obj}

\* connectedDevices.delete(deviceId)
MapDelete(cd, deviceId) == {o \in cd : o.deviceId # deviceId}

\* if (!sockets.has(token)) sockets.set(token, ws)
RegisterSocket(sk, token, c) ==
    IF sk[token] = NoConn THEN [sk EXCEPT ![token] = c] ELSE sk

\* sockets.delete(token)
DeleteSocket(sk, token) == [sk EXCEPT ![token] = NoConn]

\* redisSubscriber.unsubscribe(userId)
Unsubscribe(subs, userId) == subs \ {userId}

\* if (sockets.has(token)) sockets.get(token).send(...): the transport the
\* registry holds for the token, provided it can still carry a frame
SendTarget(sk, cn, token) ==
    IF sk[token] # NoConn /\ cn[sk[token]].ready = "OPEN" THEN sk[token] ELSE NoConn

\* ws.on("close"), ws.on("message"), redisSubscriber.on("message"),
\* setInterval(sendPing): everything from line 367 to the end of the handler
InstallHandlers(cn, c) == [cn EXCEPT ![c].phase = "open"]

\* mutant of Reject: the reason is recorded but the transport is left open
RejectWithoutClose(cn, c, reason) ==
    [cn EXCEPT ![c].phase = "rejected",
               ![c].closeCode = PolicyViolation, ![c].closeReason = reason]

\* mutant of Reject: the handler closes but does not return, and goes on to
\* install its listeners
RejectAndGoOn(cn, c, reason) ==
    [cn EXCEPT ![c].phase = "open", ![c].ready = "CLOSING",
               ![c].closeCode = PolicyViolation, ![c].closeReason = reason]

\* ws.close(1008, reason); return
Reject(cn, c, reason) ==
    [cn EXCEPT ![c].phase = "rejected", ![c].ready = "CLOSING",
               ![c].closeCode = PolicyViolation, ![c].closeReason = reason]

(* --------------------------- establishment ------------------------------ *)
\* wss.on("connection") from the upgrade to `await redisSubscriber.subscribe`:
\* parameter check, authentication, owner check, registration.  The await of
\* authenticateConnection reads and writes nothing shared, so the handler is
\* taken from its start to the subscribe call in one step.
Connect(c, p, r) ==
    /\ conn[c].phase = "none"
    /\ \A b \in DOMAIN conn : b < c => conn[b].phase # "none"
    /\ LET base == [conn EXCEPT ![c].proc = p, ![c].token = r.token,
                                ![c].userId = r.userId, ![c].clientType = r.type,
                                ![c].deviceId = r.deviceId,
                                ![c].deviceName = r.deviceName,
                                ![c].deviceType = r.deviceType,
                                ![c].ready = "OPEN"]
           user == authenticateConnection(r.token)
       IN
       IF r.token = None \/ r.userId = None \/ r.type = None
       THEN /\ conn' = Reject(base, c, "Unauthorized: Missing token, userId, or client type")
            /\ UNCHANGED <<sockets, listeners>>
       ELSE IF user = None \/ user # r.userId
       THEN /\ conn' = Reject(base, c, "Unauthorized: Invalid token or userId mismatch")
            /\ UNCHANGED <<sockets, listeners>>
       ELSE IF r.type = "user"
       THEN /\ sockets' = [sockets EXCEPT ![p] = RegisterSocket(@, r.token, c)]
            /\ conn' = [base EXCEPT ![c].phase = "subscribing"]
            /\ UNCHANGED listeners
       ELSE IF r.type = "mcu"
       THEN IF r.deviceId = None \/ r.deviceName = None \/ r.deviceType = None
            THEN /\ conn' = Reject(base, c, "Unauthorized: Missing deviceId, deviceName, deviceType")
                 /\ UNCHANGED <<sockets, listeners>>
            ELSE /\ sockets' = [sockets EXCEPT ![p] = RegisterSocket(@, r.token, c)]
                 /\ conn' = [base EXCEPT ![c].phase = "subscribing",
                                         ![c].deviceObj =
                                             createDeviceObj(r.deviceId, r.userId,
                                                 r.deviceName, r.deviceType, EmptyData)]
                 /\ UNCHANGED listeners
       ELSE /\ conn' = InstallHandlers(base, c)
            /\ listeners' = [listeners EXCEPT ![p] = Append(@, c)]
            /\ UNCHANGED sockets
    /\ UNCHANGED <<connectedDevices, subscribed, bus, sent, hist>>

\* the peer drops the transport while the connection handler is suspended in
\* `await subscribe`: the "close" event is emitted before any listener exists
EarlyClose(c) ==
    /\ conn[c].phase = "subscribing"
    /\ conn[c].ready = "OPEN"
    /\ conn' = [conn EXCEPT ![c].ready = "CLOSED"]
    /\ UNCHANGED <<sockets, connectedDevices, subscribed, listeners, bus, sent, hist>>

\* continuation after `await redisSubscriber.subscribe(userId)`: the initial
\* publish, then every handler and the ping interval are installed
SubscribeDone(c) ==
    /\ conn[c].phase = "subscribing"
    /\ LET r == conn[c]
           p == r.proc
           subs == [subscribed EXCEPT ![p] = @ \cup {r.userId}]
           first == IF r.clientType = "user"
                    THEN GetDevicesMsg(r.userId)
                    ELSE McuUpdatesMsg(r.userId, r.deviceObj)
       IN  /\ subscribed' = subs
           /\ bus' = Publish(bus, subs, first)
           /\ conn' = InstallHandlers(conn, c)
           /\ listeners' = [listeners EXCEPT ![p] = Append(@, c)]
           /\ seen' = [seen EXCEPT ![c].live = LiveDevices(r.userId),
                                   ![c].terminated = TerminatedDevices(r.userId)]
    /\ UNCHANGED <<sockets, connectedDevices, sent, termPub>>

(* ------------------------- socket frames (client) ----------------------- *)
\* a parsed frame: the keys a handler reads; an absent key is None / NoData
Frame(type, deviceId, userId, deviceName, deviceType, data) ==
    [type |-> type, deviceId |-> deviceId, userId |-> userId,
     deviceName |-> deviceName, deviceType |-> deviceType, data |-> data]

PongFrame == Frame("pong", None, None, None, None, NoData)
CommandFrame(deviceId, data) == Frame(None, deviceId, None, None, None, data)
ObjectFrame(obj) ==
    Frame(None, obj.deviceId, obj.userId, obj.deviceName, obj.deviceType, obj.data)

\* the object a frame parses to (deviceObj = content)
FrameObj(f) == createDeviceObj(f.deviceId, f.userId, f.deviceName, f.deviceType, f.data)

\* both ws.on("message") listeners: the relay one and the pong one
WsMessage(c, content) ==
    /\ conn[c].phase = "open"
    /\ conn[c].ready \in {"OPEN", "CLOSING"}
    /\ LET r == conn[c] IN
       IF content.type = "pong"
       THEN /\ conn' = [conn EXCEPT ![c].pingTimeout = FALSE]
            /\ UNCHANGED bus
       ELSE /\ \A q \in Procs : Len(bus[q]) < MaxBus
            /\ IF r.clientType = "user"
               THEN /\ bus' = IF content.deviceId # None /\ content.data.def
                              THEN Publish(bus, subscribed,
                                           UserUpdatesMsg(r.userId, FrameObj(content)))
                              ELSE bus
                    /\ UNCHANGED conn
               ELSE IF r.clientType = "mcu"
               THEN /\ conn' = [conn EXCEPT ![c].deviceObj = FrameObj(content)]
                    /\ bus' = Publish(bus, subscribed,
                                      McuUpdatesMsg(r.userId, FrameObj(content)))
               ELSE UNCHANGED <<conn, bus>>
    /\ UNCHANGED <<sockets, connectedDevices, subscribed, listeners, sent, hist>>

(* --------------------------- bus listeners ------------------------------ *)
\* sockets.get(token).send(JSON.stringify({devices: Array.from(values()), ...}))
PushList(sn, t, cd) ==
    IF t = NoConn THEN sn ELSE [sn EXCEPT ![t].hasList = TRUE, ![t].devices = cd]

\* sockets.get(token).send(JSON.stringify(deviceObj))
PushObj(sn, t, obj) ==
    IF t = NoConn THEN sn ELSE [sn EXCEPT ![t].hasObj = TRUE, ![t].deviceObj = obj]

\* sockets.get(token).send(JSON.stringify({ messageType: "userStopped" }))
PushStopped(sn, t) ==
    IF t = NoConn THEN sn ELSE [sn EXCEPT ![t].stopped = TRUE]

\* st = [conn, cd, bus, sent]: what the listeners of one process may change
\* while one bus message is emitted; cd is that process's connectedDevices.

\* user branch, messageType === "removeDevice"
UserOnRemoveDevice(st, c, p, msg) ==
    LET cd2 == MapDelete(st.cd, msg.deviceId)
        t == SendTarget(sockets[p], st.conn, st.conn[c].token)
    IN  [st EXCEPT !.cd = cd2, !.sent = PushList(@, t, cd2)]

\* mutant of UserOnMcuUpdates: an entry already cached for the deviceId is kept
UserOnMcuUpdatesKeepFirst(st, c, p, msg) ==
    LET cd2 == IF \E o \in st.cd : o.deviceId = msg.deviceObj.deviceId
               THEN st.cd
               ELSE MapSet(st.cd, msg.deviceObj)
        t == SendTarget(sockets[p], st.conn, st.conn[c].token)
    IN  [st EXCEPT !.cd = cd2, !.sent = PushList(@, t, cd2)]

\* user branch, messageType === "mcuUpdatesDevice"
UserOnMcuUpdates(st, c, p, msg) ==
    LET cd2 == MapSet(st.cd, msg.deviceObj)
        t == SendTarget(sockets[p], st.conn, st.conn[c].token)
    IN  [st EXCEPT !.cd = cd2, !.sent = PushList(@, t, cd2)]

\* mcu branch, messageType === "getDevices"
McuOnGetDevices(st, c, p, msg) ==
    [st EXCEPT !.bus = Publish(@, subscribed,
                               McuUpdatesMsg(st.conn[c].userId, st.conn[c].deviceObj))]

\* mcu branch, messageType === "userUpdatesDevice" for the own deviceId
McuOnUserUpdates(st, c, p, msg) ==
    LET obj2 == [st.conn[c].deviceObj EXCEPT !.data = msg.deviceObj.data]
        t == SendTarget(sockets[p], st.conn, st.conn[c].token)
    IN  [st EXCEPT !.conn[c].deviceObj = obj2, !.sent = PushObj(@, t, obj2)]

\* mcu branch, messageType === "userStopped"
McuOnUserStopped(st, c, p, msg) ==
    LET t == SendTarget(sockets[p], st.conn, st.conn[c].token)
    IN  [st EXCEPT !.sent = PushStopped(@, t)]

\* redisSubscriber.on("message", (incomingUserId, content) => ...) of connection c
OnBusMessage(st, c, p, msg) ==
    LET r == st.conn[c] IN
    IF r.userId # msg.channel THEN st
    ELSE IF r.clientType = "user"
    THEN IF msg.messageType = "removeDevice" /\ msg.deviceId # None
         THEN UserOnRemoveDevice(st, c, p, msg)
         ELSE IF msg.messageType = "mcuUpdatesDevice" /\ msg.hasObj
         THEN UserOnMcuUpdates(st, c, p, msg)
         ELSE st
    ELSE IF r.clientType = "mcu"
    THEN IF msg.messageType = "getDevices"
         THEN McuOnGetDevices(st, c, p, msg)
         ELSE IF msg.messageType = "userUpdatesDevice"
                 /\ msg.deviceObj.deviceId = r.deviceObj.deviceId
         THEN McuOnUserUpdates(st, c, p, msg)
         ELSE IF msg.messageType = "userStopped" /\ r.userId = msg.userId
         THEN McuOnUserStopped(st, c, p, msg)
         ELSE st
    ELSE st

\* EventEmitter.emit("message"): the listeners run one after the other, in
\* the order they were added
RECURSIVE RunListeners(_, _, _, _)
RunListeners(st, ls, p, msg) ==
    IF ls = <<>> THEN st
    ELSE RunListeners(OnBusMessage(st, Head(ls), p, msg), Tail(ls), p, msg)

\* the subscriber of process p emits its next message
Deliver(p) ==
    /\ bus[p] # <<>>
    /\ LET msg == Head(bus[p])
           st0 == [conn |-> conn, cd |-> connectedDevices[p],
                   bus |-> [bus EXCEPT ![p] = Tail(@)], sent |-> sent]
           st1 == RunListeners(st0, listeners[p], p, msg)
       IN  /\ conn' = st1.conn
           /\ connectedDevices' = [connectedDevices EXCEPT ![p] = st1.cd]
           /\ bus' = st1.bus
           /\ sent' = st1.sent
    /\ UNCHANGED <<sockets, subscribed, listeners, hist>>

(* ------------------------------ heartbeat ------------------------------- *)
\* setInterval(sendPing, 15000).  The interval is longer than the pong
\* deadline, so the previous deadline has fired or was cleared.
SendPing(c) ==
    /\ conn[c].phase = "open"
    /\ conn[c].ready = "OPEN"
    /\ PingIntervalMs > PongTimeoutMs => ~conn[c].pingTimeout
    /\ conn' = [conn EXCEPT ![c].pingTimeout = TRUE]
    /\ UNCHANGED <<sockets, connectedDevices, subscribed, listeners, bus, sent, hist>>

\* the setTimeout callback of sendPing: no pong within 10 s
PingTimeout(c) ==
    /\ conn[c].pingTimeout
    /\ LET r == conn[c]
           p == r.proc
       IN  /\ IF r.clientType = "mcu"
              THEN /\ bus' = Publish(bus, subscribed,
                                     RemoveDeviceMsg(r.userId, r.deviceObj.deviceId))
                   /\ termPub' = [termPub EXCEPT ![c] = @ + 1]
              ELSE IF r.clientType = "user"
              THEN /\ bus' = Publish(bus, subscribed, UserStoppedMsg(r.userId))
                   /\ termPub' = [termPub EXCEPT ![c] = @ + 1]
              ELSE UNCHANGED <<bus, termPub>>
           /\ sockets' = [sockets EXCEPT ![p] = DeleteSocket(@, r.token)]
           /\ subscribed' = [subscribed EXCEPT ![p] = Unsubscribe(@, r.userId)]
           /\ conn' = [conn EXCEPT ![c].pingTimeout = FALSE, ![c].timedOut = TRUE,
                                   ![c].ready = IF @ = "OPEN" THEN "CLOSING" ELSE @]
           /\ seen' = [seen EXCEPT ![c].users = LiveUsers(r.userId)]
    /\ UNCHANGED <<connectedDevices, listeners, sent>>

(* -------------------------------- close --------------------------------- *)
\* the "close" event of an established connection: both ws.on("close") listeners
WsClose(c) ==
    /\ conn[c].phase = "open"
    /\ conn[c].ready \in {"OPEN", "CLOSING"}
    /\ LET r == conn[c]
           p == r.proc
           subs == [subscribed EXCEPT ![p] = Unsubscribe(@, r.userId)]
       IN  /\ sockets' = [sockets EXCEPT ![p] = DeleteSocket(@, r.token)]
           /\ subscribed' = subs
           /\ IF r.clientType = "mcu"
              THEN /\ bus' = Publish(bus, subs,
                                     LegacyRemoveMsg(r.userId, r.deviceObj.deviceId))
                   /\ termPub' = [termPub EXCEPT ![c] = @ + 1]
              ELSE UNCHANGED <<bus, termPub>>
           /\ conn' = [conn EXCEPT ![c].phase = "closed", ![c].ready = "CLOSED",
                                   ![c].pingTimeout = FALSE]
    /\ UNCHANGED <<connectedDevices, listeners, sent, seen>>

(* --------------------------- specifications ----------------------------- *)
ThermostatReq(token, userId, deviceId) ==
    Req(token, userId, "mcu", deviceId, "Thermostat", "sensor")

Requests ==
    { Req("t1", "u1", "user", None, None, None),
      ThermostatReq("t1", "u1", "d1"),
      ThermostatReq("t1b", "u1", "d1") }

\* frames a client of connection c may send
Frames(c) ==
    {PongFrame} \cup
    (IF conn[c].clientType = "user"
     THEN {CommandFrame("d1", Setpoint72)}
     ELSE IF conn[c].clientType = "mcu"
     THEN {ObjectFrame([conn[c].deviceObj EXCEPT !.data = ModeOn]),
           ObjectFrame(conn[c].deviceObj)}
     ELSE {})

\* clients that only answer pings
PongOnly(c) == {PongFrame}

\* the handlers and timers of the connections in S, and the bus; the clients
\* send any of Frames(c) when allFrames, pong frames only otherwise
Step(S, allFrames) ==
    \/ \E c \in S : EarlyClose(c)
    \/ \E c \in S : SubscribeDone(c)
    \/ \E c \in S : \E f \in (IF allFrames THEN Frames(c) ELSE PongOnly(c)) :
                        WsMessage(c, f)
    \/ \E p \in Procs : Deliver(p)
    \/ \E c \in S : SendPing(c)
    \/ \E c \in S : PingTimeout(c)
    \/ \E c \in S : WsClose(c)

\* processes are interchangeable: the first transport is accepted by p1
Accept ==
    \E c \in ConnIds, p \in Procs, r \in Requests :
        (c = 1 => p = "p1") /\ Connect(c, p, r)

Next == Accept \/ Step(ConnIds, TRUE)

Spec == Init /\ [][Next]_vars

(* ---------------------------- step vocabulary --------------------------- *)
\* the step is the "close" event of c / the expiry of c's pong deadline
CloseStep(c) == conn[c].phase = "open" /\ conn'[c].phase = "closed"
TimeoutStep(c) == conn[c].pingTimeout /\ ~conn[c].timedOut /\ conn'[c].timedOut

\* the step passes c through registration (the sockets.has / sockets.set lines)
RegisterStep(c) == conn[c].phase = "none" /\ conn'[c].phase = "subscribing"

(* -------------------------------- C1 ------------------------------------ *)
\* C1: a connection established with the key (token) of a still-open
\* registered connection becomes the registered one, and exactly the previous
\* connection's transport is closed.
C1_Supersede ==
    [][\A c \in Conns :
         RegisterStep(c) =>
           LET p == conn'[c].proc
               old == sockets[p][conn'[c].token]
           IN  /\ sockets'[p][conn'[c].token] = c
               /\ \A o \in Conns \ {c} :
                    conn'[o].ready # conn[o].ready
                      <=> (o = old /\ conn[o].ready = "OPEN")]_vars

(* -------------------------------- C2 ------------------------------------ *)
\* C2: the close or heartbeat-timeout handler of connection A never removes a
\* registry entry that holds the transport of another open connection B.
C2_DeregisterOwnHandleOnly ==
    [][\A a \in Conns :
         (CloseStep(a) \/ TimeoutStep(a)) =>
           \A t \in Tokens :
             LET b == sockets[conn[a].proc][t]
             IN  (b # NoConn /\ b # a /\ conn[b].ready = "OPEN")
                   => sockets'[conn[a].proc][t] = b]_vars

(* -------------------------------- C3 ------------------------------------ *)
\* C3: while some open, established connection of userId exists in a process,
\* that process's subscriber is subscribed to topic userId.
C3_SubscribedWhileInUse ==
    \A c \in Conns :
      Established(c) => conn[c].userId \in subscribed[conn[c].proc]

(* -------------------------------- C4 ------------------------------------ *)
\* C4: a connection whose pong deadline expired is evicted (deregistered,
\* transport no longer open) and, once its close handler has run as well,
\* exactly one terminal envelope was published for it.
C4_EvictedOneTerminalEnvelope ==
    \A c \in Conns :
      (conn[c].timedOut /\ conn[c].clientType \in {"user", "mcu"}) =>
        /\ conn[c].ready # "OPEN"
        /\ sockets[conn[c].proc][conn[c].token] # c
        /\ conn[c].phase = "closed" => termPub[c] = 1

(* -------------------------------- C5 ------------------------------------ *)
\* C5: once a device connection of a user has terminated, a later getDevices
\* cycle has run (a user connection k published getDevices after the
\* termination) and all bus messages are delivered, the cache serving k holds
\* exactly the deviceIds of that user's live device connections.
C5_SelfHealing ==
    \A k \in Conns :
      ( /\ Established(k) /\ conn[k].clientType = "user"
        /\ seen[k].terminated # {}
        /\ TerminatedDevices(conn[k].userId) = seen[k].terminated
        /\ Quiescent )
      => CacheIds(conn[k].proc, conn[k].userId) = LiveDeviceIds(conn[k].userId)

(* -------------------------------- C7 ------------------------------------ *)
\* the user-role listeners of process p on channel ch (closed ones included:
\* a listener is never removed)
UserListeners(p, ch) ==
    {k \in Conns : /\ \E i \in 1 .. Len(listeners[p]) : listeners[p][i] = k
                   /\ conn[k].clientType = "user" /\ conn[k].userId = ch}

\* C7: whenever a user-role connection processes a deviceAnnounce/deviceUpdate
\* (mcuUpdatesDevice) envelope, the cache entry of its deviceId afterwards
\* equals the envelope's payload, whatever the cache held before (last write
\* wins; processing the same envelope again changes nothing).
C7_LastWriteWins ==
    [][\A p \in Procs :
         (bus[p] # <<>> /\ Deliver(p)) =>
           LET m == Head(bus[p]) IN
           (m.messageType = "mcuUpdatesDevice" /\ UserListeners(p, m.channel) # {})
             => {o \in connectedDevices'[p] : o.deviceId = m.deviceObj.deviceId}
                  = {m.deviceObj}]_vars

\* a cache that followed a device through a user command: the entry carries
\* the data the device took over from the command and echoed, and it was
\* pushed to an established user connection
C7_Witness ==
    \E k \in Conns :
      /\ Established(k) /\ conn[k].clientType = "user"
      /\ sent[k].hasList /\ sent[k].devices = connectedDevices[conn[k].proc]
      /\ \E o \in connectedDevices[conn[k].proc] :
           o.deviceId = "d1" /\ o.data = Setpoint72

(* -------------------------------- C8 ------------------------------------ *)
\* C8 (scenario D): device d's pong deadline expired while user connection k
\* of the same user was open; once nothing is in flight, and k is still open,
\* the cache serving k no longer holds d's deviceId and the last device list
\* k's socket received excludes it.
C8_TimeoutPurgesDevice ==
    \A d \in Conns :
      (conn[d].clientType = "mcu" /\ conn[d].timedOut) =>
        \A k \in seen[d].users :
          ( /\ Established(k)
            /\ Quiescent
            /\ conn[d].deviceObj.deviceId \notin LiveDeviceIds(conn[d].userId) )
          => /\ conn[d].deviceObj.deviceId \notin CacheIds(conn[k].proc, conn[k].userId)
             /\ sent[k].hasList
             /\ conn[d].deviceObj.deviceId \notin ListIds(k)

(* -------------------------------- C9 ------------------------------------ *)
\* device connections of userId that have not terminated
OpenDevices(userId) ==
    {d \in Conns : /\ conn[d].clientType = "mcu" /\ conn[d].userId = userId
                   /\ conn[d].phase \in {"subscribing", "open"}
                   /\ ~conn[d].timedOut}

\* C9 (scenario B): user connection k was established while d was the only
\* live device connection of the user; with d still the only one and nothing
\* in flight, the last device list k's socket received holds exactly d.
C9_UserSeesExactlyTheLiveDevice ==
    \A k \in Conns : \A d \in Conns :
      ( /\ Established(k) /\ conn[k].clientType = "user"
        /\ seen[k].live = {d}
        /\ Established(d)
        /\ OpenDevices(conn[k].userId) = {d}
        /\ Quiescent )
      => /\ sent[k].hasList
         /\ ListIds(k) = {conn[d].deviceObj.deviceId}

(* -------------------------------- C10 ----------------------------------- *)
\* every user connection of userId was established while d was live, so a
\* command on the topic was sent while d was live
SentWhileLive(d, userId) ==
    \A k \in Conns :
      (conn[k].clientType = "user" /\ conn[k].userId = userId
         /\ conn[k].phase \in {"subscribing", "open", "closed"})
        => d \in seen[k].live

\* C10 (scenario C): when the command {deviceId: d1, data: {setpoint: 72}} a
\* user sent while d1 was live is emitted in the process of d1's connection d,
\* d's device object takes data.setpoint = 72 and that object is sent on d's
\* transport.
C10_CommandReachesDevice ==
    [][\A p \in Procs :
         (bus[p] # <<>> /\ Deliver(p)) =>
           LET m == Head(bus[p]) IN
           m.messageType = "userUpdatesDevice" =>
             \A d \in LiveDevices(m.channel) :
               ( /\ conn[d].proc = p
                 /\ conn[d].deviceObj.deviceId = m.deviceObj.deviceId
                 /\ SentWhileLive(d, m.channel) )
                 => /\ conn'[d].deviceObj.data.setpoint = m.deviceObj.data.setpoint
                    /\ sent'[d].hasObj
                    /\ sent'[d].deviceObj = conn'[d].deviceObj]_vars

(* -------------------------------- C6 ------------------------------------ *)
\* two users served by one process: u1 and its device d1, then u2's device d2
\* (in the other process) and u2
CrossScript ==
    << [proc |-> "p1", req |-> Req("t1", "u1", "user", None, None, None)],
       [proc |-> "p2", req |-> ThermostatReq("t1", "u1", "d1")],
       [proc |-> "p2", req |-> ThermostatReq("t2", "u2", "d2")],
       [proc |-> "p1", req |-> Req("t2", "u2", "user", None, None, None)] >>

CrossConns == DOMAIN CrossScript

\* the clients connect one after the other, each once the system has settled,
\* and send nothing but pongs
AcceptCross ==
    \E c \in CrossConns :
        Quiescent /\ Connect(c, CrossScript[c].proc, CrossScript[c].req)

NextCross == AcceptCross \/ Step(CrossConns, FALSE)

SpecCross == InitWith(CrossConns) /\ [][NextCross]_vars

\* C6: the device list pushed to a user-role connection of user U holds only
\* devices of U (announced on U's topic).
C6_ListScopedToUser ==
    \A k \in Conns :
      (conn[k].clientType = "user" /\ sent[k].hasList) =>
        \A o \in sent[k].devices : o.userId = conn[k].userId

(* -------------------------------- C11 ----------------------------------- *)
\* one user and two devices d1, d2 of that user; the devices are served by
\* different processes
PairScript ==
    << [proc |-> "p1", req |-> Req("t1", "u1", "user", None, None, None)],
       [proc |-> "p1", req |-> ThermostatReq("t1b", "u1", "d1")],
       [proc |-> "p2", req |-> ThermostatReq("t1b", "u1", "d2")] >>

PairConns == DOMAIN PairScript

\* the clients connect one after the other, each once the system has settled
AcceptPair ==
    \E c \in PairConns :
        Quiescent /\ Connect(c, PairScript[c].proc, PairScript[c].req)

NextPair == AcceptPair \/ Step(PairConns, TRUE)

SpecPair == InitWith(PairConns) /\ [][NextPair]_vars

\* the step changes the device object held by connection d
ObjChanged(d) == conn'[d].deviceObj # conn[d].deviceObj

BadRequests ==
    { Req(None, "u1", "user", None, None, None),
      Req("t1", None, "user", None, None, None),
      Req("t1", "u1", None, None, None, None),
      Req("bad", "u1", "user", None, None, None),
      Req("t2", "u1", "user", None, None, None),
      Req("t1", "u1", "mcu", None, "Thermostat", "sensor") }

\* a heartbeat frame of the other direction, sent by a client
PingFrame == Frame("ping", None, None, None, None, NoData)

\* `await redisSubscriber.subscribe(userId, ...)` rejects (Redis unreachable):
\* the async connection handler ends there, with the socket registered and
\* nothing after the await executed
SubscribeFail(c) ==
    /\ conn[c].phase = "subscribing"
    /\ conn' = [conn EXCEPT ![c].phase = "failed"]
    /\ UNCHANGED <<sockets, connectedDevices, subscribed, listeners, bus, sent, hist>>

AcceptAny ==
    \E c \in ConnIds, p \in Procs, r \in Requests \cup BadRequests :
        (c = 1 => p = "p1") /\ Connect(c, p, r)

NextExt ==
    \/ AcceptAny
    \/ Step(ConnIds, TRUE)
    \/ \E c \in ConnIds : WsMessage(c, PingFrame)
    \/ \E c \in ConnIds : SubscribeFail(c)

SpecExt == Init /\ [][NextExt]_vars

\* the request parameters as the handler's closure holds them (r = conn[c])
MissingIdentity(r) == r.token = None \/ r.userId = None \/ r.clientType = None
AuthFailed(r) == ~MissingIdentity(r) /\ authenticateConnection(r.token) = None
OwnerMismatch(r) ==
    /\ ~MissingIdentity(r)
    /\ authenticateConnection(r.token) \notin {None, r.userId}
Malformed(r) ==
    /\ ~MissingIdentity(r)
    /\ authenticateConnection(r.token) = r.userId
    /\ r.clientType = "mcu"
    /\ (r.deviceId = None \/ r.deviceName = None \/ r.deviceType = None)

\* the step is the connection handler's run for the upgrade of c
ConnectStep(c) == conn[c].phase = "none" /\ conn'[c].phase # "none"

\* c is the source of a bus "message" listener of process p
HasListener(ls, c) == \E i \in 1 .. Len(ls) : ls[i] = c

\* after the step c is refused: closing, and no registry entry, subscription,
\* publish, listener or timer exists through it
RefusedClean(c) ==
    /\ conn'[c].phase = "rejected"
    /\ conn'[c].ready # "OPEN"
    /\ ~conn'[c].pingTimeout
    /\ \A p \in Procs :
         /\ \A t \in Tokens : sockets'[p][t] # c
         /\ ~HasListener(listeners'[p], c)
    /\ UNCHANGED <<sockets, subscribed, bus, listeners, termPub>>

(* -------------------------------- C12 ----------------------------------- *)
\* C12: a request with a missing token, userId or type, a token that fails
\* authentication or a token of another owner is refused at once: its
\* transport is closed and the handler's run creates no registry entry,
\* subscription, publish, handler or timer; nothing is created for it later.
C12_UnauthorizedCreatesNothing ==
    [][\A c \in Conns :
         /\ ( /\ ConnectStep(c)
              /\ (MissingIdentity(conn'[c]) \/ AuthFailed(conn'[c])
                    \/ OwnerMismatch(conn'[c])) )
            => RefusedClean(c)
         /\ conn[c].phase = "rejected"
            => /\ conn'[c] = conn[c]
               /\ \A p \in Procs :
                    /\ \A t \in Tokens : sockets'[p][t] # c
                    /\ ~HasListener(listeners'[p], c)]_vars

\* a refused owner mismatch next to an established connection
C12_Witness ==
    \E c, e \in Conns :
      /\ conn[c].phase = "rejected" /\ OwnerMismatch(conn[c])
      /\ conn[c].ready = "CLOSING"
      /\ Established(e)

(* -------------------------------- C13 ----------------------------------- *)
RejectCause(r) ==
    CASE MissingIdentity(r) -> "missing"
      [] AuthFailed(r) -> "authentication"
      [] OwnerMismatch(r) -> "owner"
      [] OTHER -> "other"

\* C13: two refusals for different causes among missing identity parameters,
\* failed authentication and owner mismatch end with different close
\* code/reason pairs.
C13_RejectCausesDistinguished ==
    \A a, b \in Conns :
      ( /\ conn[a].phase = "rejected" /\ conn[b].phase = "rejected"
        /\ RejectCause(conn[a]) # "other" /\ RejectCause(conn[b]) # "other"
        /\ RejectCause(conn[a]) # RejectCause(conn[b]) )
      => <<conn[a].closeCode, conn[a].closeReason>>
           # <<conn[b].closeCode, conn[b].closeReason>>

(* -------------------------------- C14 ----------------------------------- *)
\* C14: an authenticated device request without deviceId, deviceName or
\* deviceType is refused with the policy close code, and the handler's run
\* creates no registry entry, subscription, publish, handler or timer.
C14_MalformedRefused ==
    [][\A c \in Conns :
         (ConnectStep(c) /\ Malformed(conn'[c]))
           => /\ RefusedClean(c)
              /\ conn'[c].closeCode = PolicyViolation]_vars

\* a refused device request without deviceId, while the same user's token is
\* in use by an established connection
C14_Witness ==
    \E c, e \in Conns :
      /\ conn[c].phase = "rejected" /\ Malformed(conn[c])
      /\ conn[c].closeCode = PolicyViolation
      /\ Established(e) /\ conn[e].token = conn[c].token

(* -------------------------------- C15 ----------------------------------- *)
\* C15: a connection whose subscribe call failed is still open and
\* registered, and its socket handlers, bus listener and heartbeat are
\* installed.
C15_BusFailureKeepsHandlers ==
    \A c \in Conns :
      conn[c].phase = "failed" =>
        /\ conn[c].ready = "OPEN"
        /\ HasListener(listeners[conn[c].proc], c)

(* -------------------------------- C17 ----------------------------------- *)
\* C17: a ping or pong frame received on a socket, of either role, publishes
\* nothing and leaves the connection's device object as it was.
C17_HeartbeatOffDataPath ==
    [][\A c \in Conns :
         (WsMessage(c, PongFrame) \/ WsMessage(c, PingFrame))
           => /\ bus' = bus
              /\ conn'[c].deviceObj = conn[c].deviceObj]_vars

(* -------------------------------- C16 ----------------------------------- *)
\* the transports on which a listener of process p attempts a send while the
\* next bus message is emitted, and which are not open
FailedSends(p) ==
    LET m == Head(bus[p])
        sends(c) ==
            /\ HasListener(listeners[p], c)
            /\ conn[c].userId = m.channel
            /\ \/ /\ conn[c].clientType = "user"
                  /\ \/ m.messageType = "removeDevice" /\ m.deviceId # None
                     \/ m.messageType = "mcuUpdatesDevice" /\ m.hasObj
               \/ /\ conn[c].clientType = "mcu"
                  /\ m.messageType = "userStopped" /\ m.userId = conn[c].userId
    IN  {t \in Conns : \E c \in Conns :
            /\ sends(c)
            /\ sockets[p][conn[c].token] = t
            /\ conn[t].ready # "OPEN"}

\* C16: a transport on which a send fails is torn down like an explicitly
\* closed one: after the step it is deregistered and its close cleanup has run.
C16_FailedSendTearsDown ==
    [][\A p \in Procs :
         (bus[p] # <<>> /\ Deliver(p)) =>
           \A t \in FailedSends(p) :
             /\ sockets'[p][conn[t].token] # t
             /\ conn'[t].phase = "closed"]_vars

(* -------------------------------- C18 ----------------------------------- *)
\* C18: the close event of a connection whose pong deadline already expired
\* repeats no cleanup step: it deletes no registry entry, unsubscribes nothing
\* and publishes nothing.
C18_CleanupOnce ==
    [][\A c \in Conns :
         (CloseStep(c) /\ conn[c].timedOut)
           => UNCHANGED <<sockets, subscribed, bus, termPub>>]_vars

(* -------------------------------- C19 ----------------------------------- *)
\* C19: the close event of a device connection that did not time out publishes
\* one envelope, and every process that receives it receives
\* {messageType: "removeDevice", deviceId}, the form the user branch deletes on.
C19_CloseRemoveRecognised ==
    [][\A d \in Conns :
         (CloseStep(d) /\ conn[d].clientType = "mcu" /\ ~conn[d].timedOut)
           => /\ termPub'[d] = termPub[d] + 1
              /\ \A p \in Procs :
                   bus'[p] # bus[p]
                     => bus'[p] = Append(bus[p],
                                         RemoveDeviceMsg(conn[d].userId,
                                                         conn[d].deviceObj.deviceId))]_vars

(* -------------------------------- C20 ----------------------------------- *)
\* C20: when a user connection terminates, by its close event or by the
\* expiry of its pong deadline, a userStopped envelope is published on its
\* topic: every subscribed process receives it.
C20_UserStoppedPublished ==
    [][\A k \in Conns :
         /\ (CloseStep(k) /\ conn[k].clientType = "user" /\ ~conn[k].timedOut)
            => /\ termPub'[k] = termPub[k] + 1
               /\ \A p \in Procs :
                    conn[k].userId \in subscribed'[p]
                      => bus'[p] = Append(bus[p], UserStoppedMsg(conn[k].userId))
         /\ (TimeoutStep(k) /\ conn[k].clientType = "user")
            => /\ termPub'[k] = termPub[k] + 1
               /\ \A p \in Procs :
                    conn[k].userId \in subscribed[p]
                      => bus'[p] = Append(bus[p], UserStoppedMsg(conn[k].userId))]_vars

(* -------------------------------- C21 ----------------------------------- *)
\* C21: a pong frame cancels the pending deadline and changes nothing else (a
\* pong with no deadline pending changes nothing at all); and a deadline is
\* armed for a connection only with a ping sent on that connection's own
\* transport, so a peer that answers every ping it receives always gets to
\* cancel the deadline.
C21_PongKeepsAlive ==
    [][\A c \in Conns :
         /\ WsMessage(c, PongFrame)
            => /\ ~conn'[c].pingTimeout
               /\ conn' = [conn EXCEPT ![c].pingTimeout = FALSE]
               /\ UNCHANGED <<sockets, subscribed, bus>>
         /\ (~conn[c].pingTimeout /\ conn'[c].pingTimeout)
            => SendTarget(sockets[conn[c].proc], conn, conn[c].token) = c]_vars

(* -------------------------------- C22 ----------------------------------- *)
\* setInterval(sendPing, ...) of c was started and not cleared
IntervalRunning(c) == conn[c].phase = "open"

\* C22: once the transport of a connection has closed, the connection has no
\* ping interval and no pending pong deadline.
C22_NoTimerAfterClose ==
    \A c \in Conns :
      (conn[c].phase # "none" /\ conn[c].ready = "CLOSED")
        => ~IntervalRunning(c) /\ ~conn[c].pingTimeout

(* -------------------------------- C24 ----------------------------------- *)
\* C24: the device object a device connection holds keeps the deviceId,
\* deviceName and deviceType of the connection request.
C24_DeviceIdentityImmutable ==
    \A d \in Conns :
      (conn[d].clientType = "mcu" /\ conn[d].phase \in {"open", "closed"})
        => /\ conn[d].deviceObj.deviceId = conn[d].deviceId
           /\ conn[d].deviceObj.deviceName = conn[d].deviceName
           /\ conn[d].deviceObj.deviceType = conn[d].deviceType

(* -------------------------------- C25 ----------------------------------- *)
\* C25: when a userUpdatesDevice envelope is applied to a device connection,
\* every data key the command does not mention (value 0) keeps its value in
\* the device object the connection holds.
C25_CommandMerged ==
    [][\A p \in Procs :
         (bus[p] # <<>> /\ Deliver(p)) =>
           LET m == Head(bus[p]) IN
           m.messageType = "userUpdatesDevice" =>
             \A d \in LiveDevices(m.channel) :
               (conn[d].proc = p
                  /\ conn[d].deviceObj.deviceId = m.deviceObj.deviceId)
                 => /\ m.deviceObj.data.setpoint = 0
                       => conn'[d].deviceObj.data.setpoint
                            = conn[d].deviceObj.data.setpoint
                    /\ m.deviceObj.data.mode = 0
                       => conn'[d].deviceObj.data.mode
                            = conn[d].deviceObj.data.mode]_vars

(* -------------------------------- C26 ----------------------------------- *)
\* C26: a data frame arriving on a connection whose transport is no longer
\* open (evicted by the heartbeat, close under way) is not accepted: it
\* publishes nothing and changes no connection state.
C26_NoFrameAfterClosing ==
    [][\A c \in Conns : \A f \in Frames(c) \ {PongFrame} :
         (conn[c].ready # "OPEN" /\ WsMessage(c, f))
           => bus' = bus /\ conn' = conn]_vars

(* -------------------------------- C28 ----------------------------------- *)
\* C28: when a removeDevice envelope is emitted in a process, the cache loses
\* that deviceId and keeps every other entry, and each established user
\* connection listening on the topic has the resulting list as the last list
\* sent on its socket, whether or not the key was cached.
C28_RemovePushesList ==
    [][\A p \in Procs :
         (bus[p] # <<>> /\ Deliver(p)) =>
           LET m == Head(bus[p]) IN
           (m.messageType = "removeDevice" /\ m.deviceId # None
              /\ UserListeners(p, m.channel) # {})
             => /\ connectedDevices'[p] = MapDelete(connectedDevices[p], m.deviceId)
                /\ \A k \in UserListeners(p, m.channel) :
                     Established(k)
                       => /\ sent'[k].hasList
                          /\ sent'[k].devices = connectedDevices'[p]]_vars

(* -------------------------------- C23 ----------------------------------- *)
\* two devices d2, d1 of one user connected with the same token to one
\* process, then a user of theirs
SharedScript ==
    << [proc |-> "p1", req |-> ThermostatReq("t1", "u1", "d2")],
       [proc |-> "p1", req |-> ThermostatReq("t1", "u1", "d1")],
       [proc |-> "p1", req |-> Req("t1b", "u1", "user", None, None, None)] >>

SharedConns == DOMAIN SharedScript

AcceptShared ==
    \E c \in SharedConns :
        Quiescent /\ Connect(c, SharedScript[c].proc, SharedScript[c].req)

NextShared == AcceptShared \/ Step(SharedConns, TRUE)

SpecShared == InitWith(SharedConns) /\ [][NextShared]_vars

\* C23: when a userUpdatesDevice envelope naming deviceId x is emitted, a
\* device connection whose own deviceId is not x keeps its device object and
\* has nothing sent on its socket.
C23_CommandOnlyToNamedDevice ==
    [][\A p \in Procs :
         (bus[p] # <<>> /\ Deliver(p)) =>
           LET m == Head(bus[p]) IN
           m.messageType = "userUpdatesDevice" =>
             \A e \in Conns :
               (conn[e].clientType = "mcu"
                  /\ conn[e].deviceObj.deviceId # m.deviceObj.deviceId)
                 => /\ conn'[e].deviceObj = conn[e].deviceObj
                    /\ sent'[e] = sent[e]]_vars

(* -------------------------------- C27 ----------------------------------- *)
\* C27: a device connection d that was live when user connection k published
\* its getDevices, and still is, has answered, and k's process has received
\* the answer: once nothing is in flight the cache serving k holds d's
\* deviceId.
C27_NoReplyMissed ==
    \A k \in Conns :
      (Established(k) /\ conn[k].clientType = "user" /\ Quiescent) =>
        \A d \in seen[k].live :
          Established(d) =>
            conn[d].deviceObj.deviceId \in CacheIds(conn[k].proc, conn[k].userId)

(* -------------------------------- C29 ----------------------------------- *)
\* the step is the continuation of c's handler after the subscribe: handlers
\* installed, connection established
EstablishStep(c) == conn[c].phase = "subscribing" /\ conn'[c].phase = "open"

\* C29: when a user connection is established, the cache its lists are built
\* from is empty.
C29_CacheStartsEmpty ==
    [][\A k \in Conns :
         (EstablishStep(k) /\ conn[k].clientType = "user")
           => connectedDevices'[conn[k].proc] = {}]_vars

(* ------- the connection handler of src/unnamed/part_000 (globals) -------- *)
\* In this revision token, userId, clientType and deviceObj are variables of
\* the module, assigned by every run of the connection handler and read by
\* the handlers of every connection.  Connections are accepted in the order
\* of their index, so the globals of process p hold what the handler of the
\* latest connection of p assigned.
LatestIn(p) ==
    LET S == {c \in Conns : conn[c].phase # "none" /\ conn[c].proc = p}
    IN  IF S = {} THEN NoConn ELSE CHOOSE c \in S : \A b \in S : b <= c

\* deviceObj is assigned by the handler of a device request that passed the
\* device parameter check (the clients of this specification send only pongs)
LatestMcuIn(p) ==
    LET S == {c \in Conns : /\ conn[c].phase \notin {"none", "rejected"}
                            /\ conn[c].proc = p /\ conn[c].clientType = "mcu"}
    IN  IF S = {} THEN NoConn ELSE CHOOSE c \in S : \A b \in S : b <= c

GlobalsOf(cn, p) ==
    LET l == LatestIn(p)
        m == LatestMcuIn(p)
    IN  [token |-> IF l = NoConn THEN None ELSE cn[l].token,
         userId |-> IF l = NoConn THEN None ELSE cn[l].userId,
         clientType |-> IF l = NoConn THEN None ELSE cn[l].clientType,
         deviceObj |-> IF m = NoConn THEN EmptyObj ELSE cn[m].deviceObj]

\* redisPublisher.publish(userId, JSON.stringify(deviceObj)): the bare object
RawObjectMsg(ch, obj) == Envelope(ch, None, None, TRUE, obj, None)

\* wss.on("connection"): the subscribe call is not awaited, so the publish
\* that follows may reach Redis before or after the process is subscribed
GlobalsConnect(c, p, r, subscribedFirst) ==
    /\ conn[c].phase = "none"
    /\ \A b \in DOMAIN conn : b < c => conn[b].phase # "none"
    /\ LET base == [conn EXCEPT ![c].proc = p, ![c].token = r.token,
                                ![c].userId = r.userId, ![c].clientType = r.type,
                                ![c].deviceId = r.deviceId,
                                ![c].deviceName = r.deviceName,
                                ![c].deviceType = r.deviceType,
                                ![c].ready = "OPEN"]
           user == authenticateConnection(r.token)
           subs == [subscribed EXCEPT ![p] = @ \cup {r.userId}]
           reach == IF subscribedFirst THEN subs ELSE subscribed
           obj == createDeviceObj(r.deviceId, r.userId, r.deviceName,
                                  r.deviceType, EmptyData)
       IN
       IF r.token = None \/ r.userId = None \/ r.type = None
       THEN /\ conn' = Reject(base, c, "Unauthorized: Missing token, userId, or client type")
            /\ UNCHANGED <<sockets, subscribed, listeners, bus>>
       ELSE IF user = None \/ user # r.userId
       THEN /\ conn' = Reject(base, c, "Unauthorized: Invalid token or userId mismatch")
            /\ UNCHANGED <<sockets, subscribed, listeners, bus>>
       ELSE IF r.type = "mcu"
               /\ (r.deviceId = None \/ r.deviceName = None \/ r.deviceType = None)
       THEN /\ conn' = Reject(base, c, "Unauthorized: Missing deviceId, deviceName, deviceType")
            /\ UNCHANGED <<sockets, subscribed, listeners, bus>>
       ELSE /\ sockets' = [sockets EXCEPT ![p] =
                             IF r.type = "user" THEN RegisterSocket(@, r.token, c)
                             ELSE IF r.type = "mcu" THEN [@ EXCEPT ![r.token] = c]
                             ELSE @]
            /\ subscribed' = IF r.type \in {"user", "mcu"} THEN subs ELSE subscribed
            /\ bus' = IF r.type = "user"
                      THEN Publish(bus, reach, GetDevicesMsg(r.userId))
                      ELSE IF r.type = "mcu"
                      THEN Publish(bus, reach, RawObjectMsg(r.userId, obj))
                      ELSE bus
            /\ conn' = [base EXCEPT ![c].phase = "open",
                                    ![c].deviceObj = IF r.type = "mcu" THEN obj ELSE @]
            /\ listeners' = [listeners EXCEPT ![p] = Append(@, c)]
    /\ UNCHANGED <<connectedDevices, sent, hist>>

\* both ws.on("message") listeners, for a pong frame
GlobalsPong(c) ==
    /\ conn[c].phase = "open"
    /\ conn[c].ready \in {"OPEN", "CLOSING"}
    /\ conn[c].pingTimeout
    /\ conn' = [conn EXCEPT ![c].pingTimeout = FALSE]
    /\ UNCHANGED <<sockets, connectedDevices, subscribed, listeners, bus, sent, hist>>

\* redisSubscriber.on("message"): every listener reads the globals.  content
\* is the published string, so content["deviceId"] and content["removeDevice"]
\* are undefined and only content === "getDevices" has an effect
RECURSIVE GlobalsRunListeners(_, _, _, _)
GlobalsRunListeners(b, ls, g, msg) ==
    IF ls = <<>> THEN b
    ELSE GlobalsRunListeners(
             IF g.userId = msg.channel /\ g.clientType = "mcu"
                /\ msg.messageType = "getDevices"
             THEN Publish(b, subscribed, RawObjectMsg(g.userId, g.deviceObj))
             ELSE b,
             Tail(ls), g, msg)

GlobalsDeliver(p) ==
    /\ bus[p] # <<>>
    /\ bus' = GlobalsRunListeners([bus EXCEPT ![p] = Tail(@)], listeners[p],
                                  GlobalsOf(conn, p), Head(bus[p]))
    /\ UNCHANGED <<conn, sockets, connectedDevices, subscribed, listeners, sent, hist>>

\* sendPing: ws.send on the connection's own socket, then the 10 s deadline
GlobalsSendPing(c) ==
    /\ conn[c].phase = "open"
    /\ conn[c].ready = "OPEN"
    /\ ~conn[c].pingTimeout
    /\ conn' = [conn EXCEPT ![c].pingTimeout = TRUE]
    /\ UNCHANGED <<sockets, connectedDevices, subscribed, listeners, bus, sent, hist>>

\* the deadline callback: sockets.delete(token); unsubscribe(userId); ws.close()
GlobalsPingTimeout(c) ==
    /\ conn[c].pingTimeout
    /\ LET p == conn[c].proc
           g == GlobalsOf(conn, p)
       IN  /\ sockets' = [sockets EXCEPT ![p] = DeleteSocket(@, g.token)]
           /\ subscribed' = [subscribed EXCEPT ![p] = Unsubscribe(@, g.userId)]
           /\ conn' = [conn EXCEPT ![c].pingTimeout = FALSE, ![c].timedOut = TRUE,
                                   ![c].ready = IF @ = "OPEN" THEN "CLOSING" ELSE @]
    /\ UNCHANGED <<connectedDevices, listeners, bus, sent, hist>>

\* both ws.on("close") listeners
GlobalsWsClose(c) ==
    /\ conn[c].phase = "open"
    /\ conn[c].ready \in {"OPEN", "CLOSING"}
    /\ LET p == conn[c].proc
           g == GlobalsOf(conn, p)
           subs == [subscribed EXCEPT ![p] = Unsubscribe(@, g.userId)]
       IN  /\ sockets' = [sockets EXCEPT ![p] = DeleteSocket(@, g.token)]
           /\ subscribed' = subs
           /\ IF g.clientType = "mcu"
              THEN /\ bus' = Publish(bus, subs,
                                     LegacyRemoveMsg(g.userId, g.deviceObj.deviceId))
                   /\ termPub' = [termPub EXCEPT ![c] = @ + 1]
              ELSE UNCHANGED <<bus, termPub>>
           /\ conn' = [conn EXCEPT ![c].phase = "closed", ![c].ready = "CLOSED",
                                   ![c].pingTimeout = FALSE]
    /\ UNCHANGED <<connectedDevices, listeners, sent, seen>>

AcceptGlobals ==
    \E c \in ConnIds, p \in Procs, r \in Requests, subscribedFirst \in BOOLEAN :
        (c = 1 => p = "p1") /\ GlobalsConnect(c, p, r, subscribedFirst)

NextGlobals ==
    \/ AcceptGlobals
    \/ \E c \in ConnIds : GlobalsPong(c)
    \/ \E p \in Procs : GlobalsDeliver(p)
    \/ \E c \in ConnIds : GlobalsSendPing(c)
    \/ \E c \in ConnIds : GlobalsPingTimeout(c)
    \/ \E c \in ConnIds : GlobalsWsClose(c)

SpecGlobals == Init /\ [][NextGlobals]_vars

(* -------------------------------- C30 ----------------------------------- *)
\* C30: in the part_000 revision the close and deadline handlers of a
\* connection act on that connection's own identity: they delete the registry
\* entry of its own token, unsubscribe its own userId, and the close handler
\* publishes a removal exactly when the connection itself is a device.
C30_HandlersUseOwnIdentity ==
    [][\A c \in Conns :
         (CloseStep(c) \/ TimeoutStep(c)) =>
           LET p == conn[c].proc IN
           /\ sockets'[p] = DeleteSocket(sockets[p], conn[c].token)
           /\ subscribed'[p] = Unsubscribe(subscribed[p], conn[c].userId)
           /\ CloseStep(c)
                => (termPub'[c] # termPub[c] <=> conn[c].clientType = "mcu")]_vars

(* -------------------------------- C31 ----------------------------------- *)
\* the close event of c has not occurred
NotClosed(c) == conn[c].phase # "closed"

\* C31: after a connection's close event bus messages cause no action on its
\* behalf: the outcome of emitting a bus message (device objects, cache, new
\* publishes, frames sent) is that of running only the listeners of the
\* connections whose close event has not occurred.
C31_ClosedListenerSilent ==
    [][\A p \in Procs :
         (bus[p] # <<>> /\ Deliver(p)) =>
           LET st0 == [conn |-> conn, cd |-> connectedDevices[p],
                       bus |-> [bus EXCEPT ![p] = Tail(@)], sent |-> sent]
               st1 == RunListeners(st0, SelectSeq(listeners[p], NotClosed),
                                   p, Head(bus[p]))
           IN  /\ conn' = st1.conn
               /\ connectedDevices'[p] = st1.cd
               /\ bus' = st1.bus
               /\ sent' = st1.sent]_vars

(* -------------------------------- C32 ----------------------------------- *)
\* the step starts the pong deadline of c (pingTimeout = setTimeout(...))
ArmStep(c) == ~conn[c].pingTimeout /\ conn'[c].pingTimeout

\* C32: a pong deadline is started for a connection only when the ping of
\* that step was sent on the connection's own transport: the registry holds
\* that transport under the connection's token.
C32_DeadlineOnlyAfterOwnPing ==
    [][\A c \in Conns :
         ArmStep(c) => sockets[conn[c].proc][conn[c].token] = c]_vars

(* -------------------------------- C33 ----------------------------------- *)
\* the bus message is one the user branch handles with a push of the list
ListEnvelope(m) ==
    \/ m.messageType = "removeDevice" /\ m.deviceId # None
    \/ m.messageType = "mcuUpdatesDevice" /\ m.hasObj

\* C33: when a process emits an announce/update/remove envelope, every open
\* established user connection of the topic in that process is sent the
\* resulting list on its own transport, and the list is sent on no transport
\* other than those of the user connections of the topic in that process.
C33_PushOnOwnTransport ==
    [][\A p \in Procs :
         (bus[p] # <<>> /\ Deliver(p) /\ ListEnvelope(Head(bus[p]))) =>
           LET m == Head(bus[p]) IN
           \A k \in Conns :
             /\ (k \in UserListeners(p, m.channel) /\ Established(k))
                  => /\ sent'[k].hasList
                     /\ sent'[k].devices = connectedDevices'[p]
             /\ (sent'[k].hasList /\ ~sent[k].hasList)
                  => k \in UserListeners(p, m.channel)]_vars

(* -------------------------------- C34 ----------------------------------- *)
\* C34: every transport the sockets registry holds belongs to a connection
\* whose close event has not occurred.
C34_RegistryHoldsOpenTransports ==
    \A p \in Procs : \A t \in Tokens :
      sockets[p][t] # NoConn => conn[sockets[p][t]].ready # "CLOSED"

(* -------------------------------- C35 ----------------------------------- *)
\* an authenticated request whose type is neither "user" nor "mcu": both role
\* branches of the connection handler are skipped
OtherRoleReq == Req("t1", "u1", "viewer", None, None, None)

AcceptOther ==
    \E c \in ConnIds, p \in Procs, r \in Requests \cup {OtherRoleReq} :
        (c = 1 => p = "p1") /\ Connect(c, p, r)

NextOther == AcceptOther \/ Step(ConnIds, TRUE)

SpecOther == Init /\ [][NextOther]_vars

\* c was accepted with a type that is neither "user" nor "mcu"
OtherRole(cn, c) ==
    cn[c].phase \in {"open", "closed"} /\ cn[c].clientType \notin {"user", "mcu", None}

\* C35: the establishment, the heartbeat (ping, deadline expiry) and the
\* close of an authenticated connection whose type is neither user nor mcu
\* leave the sockets registry, the topic subscriptions and every other
\* connection unchanged and publish nothing.
C35_OtherRoleTouchesNothing ==
    [][\A c \in Conns :
         ( /\ OtherRole(conn', c)
           /\ ConnectStep(c) \/ ArmStep(c) \/ TimeoutStep(c) \/ CloseStep(c) )
         => /\ sockets' = sockets
            /\ subscribed' = subscribed
            /\ bus' = bus
            /\ \A o \in Conns \ {c} : conn'[o] = conn[o]]_vars

(* -------------------------------- C36 ----------------------------------- *)
\* the process of p has terminated
Down(p) == \E c \in Conns : conn[c].proc = p /\ conn[c].phase = "crashed"

\* ws.on("message") with a frame that is not JSON: JSON.parse throws inside
\* the listener, nothing catches it and the process has no uncaughtException
\* handler, so the process terminates.  Its registry, cache, subscriber and
\* timers are gone and no close handler runs.
InvalidJsonFrame(c) ==
    /\ conn[c].phase = "open"
    /\ conn[c].ready \in {"OPEN", "CLOSING"}
    /\ LET p == conn[c].proc IN
       /\ conn' = [o \in Conns |->
                     IF conn[o].proc = p /\ conn[o].phase # "none"
                     THEN [conn[o] EXCEPT !.phase = "crashed", !.ready = "CLOSED",
                                          !.pingTimeout = FALSE]
                     ELSE conn[o]]
       /\ sockets' = [sockets EXCEPT ![p] = [t \in Tokens |-> NoConn]]
       /\ connectedDevices' = [connectedDevices EXCEPT ![p] = {}]
       /\ subscribed' = [subscribed EXCEPT ![p] = {}]
       /\ listeners' = [listeners EXCEPT ![p] = <<>>]
       /\ bus' = [bus EXCEPT ![p] = <<>>]
    /\ UNCHANGED <<sent, hist>>

AcceptRunning ==
    \E c \in ConnIds, p \in Procs, r \in Requests :
        (c = 1 => p = "p1") /\ ~Down(p) /\ Connect(c, p, r)

NextCrash ==
    \/ AcceptRunning
    \/ Step(ConnIds, TRUE)
    \/ \E c \in ConnIds : InvalidJsonFrame(c)

SpecCrash == Init /\ [][NextCrash]_vars

\* C36: a socket frame that is not valid JSON affects only the connection
\* that sent it: every other connection (its transport, its timers), the
\* registry entries of other connections, the subscriptions and the cache
\* stay as they were.
C36_InvalidJsonIsLocal ==
    [][\A c \in Conns :
         InvalidJsonFrame(c) =>
           \A o \in Conns \ {c} :
             conn[o].phase # "none" =>
               LET q == conn[o].proc IN
               /\ conn'[o] = conn[o]
               /\ \A t \in Tokens : sockets[q][t] = o => sockets'[q][t] = o
               /\ subscribed'[q] = subscribed[q]
               /\ connectedDevices'[q] = connectedDevices[q]]_vars

====
